---------------------------- MODULE Spec2Model ----------------------------
(***************************************************************************)
(* Model of lib/lha_lzss_decoder.c: the LZSS decoder for the -lz5-        *)
(* compression method.  The decoder state is the C struct LHALZSSDecoder;  *)
(* lha_lzss_init and lha_lzss_read are the two operations of the decoder   *)
(* type; output_byte, output_block and process_run are its helpers.  The   *)
(* source callback is the environment: it serves a compressed stream and   *)
(* fails when it cannot supply the bytes requested.                        *)
(***************************************************************************)
EXTENDS Integers, Sequences, FiniteSets, TLC

\* ------------------------------------------------------------------------
\* Program constants (#define lines of the source)

RING_BUFFER_SIZE == 4096

START_OFFSET == 18

THRESHOLD == 3

OUTPUT_BUFFER_SIZE == (15 + THRESHOLD) * 8

\* unsigned int arithmetic is modulo 2^32.  The values of the model stay far
\* below 2^31, so a sum never wraps; a difference a - b with a < b wraps to
\* 2^32 - (b - a), which is above every value the model compares it with and
\* is represented by the largest number TLC has.
UINT_WRAPPED == 2147483647

USub(a, b) == IF a >= b THEN a - b ELSE UINT_WRAPPED

\* the byte lha_lzss_init fills the ring buffer with: ' '
FILLER == 32

\* ------------------------------------------------------------------------
\* Bit operations on bytes and small unsigned values, computed bit by bit

RECURSIVE BitAnd(_, _)
BitAnd(a, b) ==
    IF a = 0 \/ b = 0 THEN 0
    ELSE (IF a % 2 = 1 /\ b % 2 = 1 THEN 1 ELSE 0)
         + 2 * BitAnd(a \div 2, b \div 2)

RECURSIVE BitOr(_, _)
BitOr(a, b) ==
    IF a = 0 THEN b
    ELSE IF b = 0 THEN a
    ELSE (IF a % 2 = 1 \/ b % 2 = 1 THEN 1 ELSE 0)
         + 2 * BitOr(a \div 2, b \div 2)

RECURSIVE Shl(_, _)
Shl(a, n) == IF n = 0 THEN a ELSE Shl(2 * a, n - 1)

\* ------------------------------------------------------------------------
\* The decoder state: struct LHALZSSDecoder.
\* ringbuf is represented by the bytes written into it since the memset of
\* lha_lzss_init: a function from the indices written to the bytes they
\* hold; every other index holds the byte of the memset.  outbuf is
\* represented the same way, by the bytes written into it: an index never
\* written, or forgotten (see Forget), holds an indeterminate value.
\* ringbuf_oob and outbuf_oob are not fields of the struct: they record that
\* an access to ringbuf, or a write to outbuf, has been made at an index
\* outside the array.

\* the indices of uint8_t ringbuf[RING_BUFFER_SIZE]
InRingbuf(i) == 0 <= i /\ i < RING_BUFFER_SIZE

\* the indices of uint8_t outbuf[OUTPUT_BUFFER_SIZE]
InOutbuf(i) == 0 <= i /\ i < OUTPUT_BUFFER_SIZE

RingAt(d, i) == IF i \in DOMAIN d.ringbuf THEN d.ringbuf[i] ELSE FILLER

RingPut(ring, i, b) ==
    IF i \in DOMAIN ring THEN [ring EXCEPT ![i] = b] ELSE (i :> b) @@ ring

\* lha_lzss_init without the memset of the ring buffer
InitNoRingbufReset(d) ==
    [d EXCEPT !.ringbuf_pos = RING_BUFFER_SIZE - START_OFFSET,
              !.outbuf_pos = 0,
              !.outbuf_len = 0]

\* lha_lzss_init without the reset of the output buffer
InitNoOutbufReset(d) ==
    [d EXCEPT !.ringbuf = << >>,
              !.ringbuf_pos = RING_BUFFER_SIZE - START_OFFSET]

lha_lzss_init(d) ==
    [d EXCEPT !.ringbuf = << >>,
              !.ringbuf_pos = RING_BUFFER_SIZE - START_OFFSET,
              !.outbuf_pos = 0,
              !.outbuf_len = 0]

\* freshly allocated memory, before lha_lzss_init: the content is never read
\* before it is written
Allocated ==
    [ringbuf     |-> << >>,
     ringbuf_pos |-> 0,
     outbuf      |-> << >>,
     outbuf_pos  |-> 0,
     outbuf_len  |-> 0,
     ringbuf_oob |-> FALSE,
     outbuf_oob  |-> FALSE]

\* Between two calls the bytes of outbuf at outbuf_len and above are dead:
\* process_run writes every index again, from 0, before outbuf_len passes
\* it.  The state kept between calls forgets them; a read of such an index
\* would yield an indeterminate value.
Forget(d) ==
    [d EXCEPT !.outbuf = [i \in {j \in DOMAIN d.outbuf : j < d.outbuf_len}
                             |-> d.outbuf[i]]]

\* output_byte advancing the write cursor without the modulo
OutputByteNoWrap(d, b) ==
    [d EXCEPT !.outbuf = IF d.outbuf_len < OUTPUT_BUFFER_SIZE
                            THEN RingPut(@, d.outbuf_len, b) ELSE @,
              !.outbuf_len = @ + 1,
              !.ringbuf = RingPut(@, d.ringbuf_pos, b),
              !.ringbuf_pos = @ + 1,
              !.outbuf_oob = @ \/ ~InOutbuf(d.outbuf_len),
              !.ringbuf_oob = @ \/ ~InRingbuf(d.ringbuf_pos)]

\* Add a single byte to the output buffer.
output_byte(d, b) ==
    [d EXCEPT !.outbuf = IF d.outbuf_len < OUTPUT_BUFFER_SIZE
                            THEN RingPut(@, d.outbuf_len, b) ELSE @,
              !.outbuf_len = @ + 1,
              !.ringbuf = RingPut(@, d.ringbuf_pos, b),
              !.ringbuf_pos = (@ + 1) % RING_BUFFER_SIZE,
              !.outbuf_oob = @ \/ ~InOutbuf(d.outbuf_len),
              !.ringbuf_oob = @ \/ ~InRingbuf(d.ringbuf_pos)]

\* a bulk copy: every byte is taken from the ring buffer as it was before
\* the copy
RECURSIVE BulkBlockLoop(_, _, _, _)
BulkBlockLoop(l, old, start, len) ==
    IF ~(l.i < len) THEN l.decoder
    ELSE BulkBlockLoop(
             [decoder |-> output_byte(
                              l.decoder,
                              RingAt(old, (start + l.i) % RING_BUFFER_SIZE)),
              i       |-> l.i + 1],
             old, start, len)

BulkBlock(d, start, len) ==
    BulkBlockLoop([decoder |-> d, i |-> 0], d, start, len)

\* the for loop reading ringbuf[start + i], without the modulo
RECURSIVE OutputBlockNoWrapLoop(_, _, _)
OutputBlockNoWrapLoop(l, start, len) ==
    IF ~(l.i < len) THEN l.decoder
    ELSE LET at == start + l.i
         IN  OutputBlockNoWrapLoop(
                 [decoder |-> output_byte(
                                  [l.decoder EXCEPT
                                      !.ringbuf_oob = @ \/ ~InRingbuf(at)],
                                  RingAt(l.decoder, at)),
                  i       |-> l.i + 1],
                 start, len)

OutputBlockNoWrap(d, start, len) ==
    OutputBlockNoWrapLoop([decoder |-> d, i |-> 0], start, len)

\* the for loop of output_block; its state l is [decoder, i]: the decoder
\* and the loop variable
RECURSIVE output_block_loop(_, _, _)
output_block_loop(l, start, len) ==
    IF ~(l.i < len) THEN l.decoder
    ELSE LET at == (start + l.i) % RING_BUFFER_SIZE
         IN  output_block_loop(
                 [decoder |-> output_byte(
                                  [l.decoder EXCEPT
                                      !.ringbuf_oob = @ \/ ~InRingbuf(at)],
                                  RingAt(l.decoder, at)),
                  i       |-> l.i + 1],
                 start, len)

\* Output a "block" of data from the specified range in the ring buffer.
output_block(d, start, len) ==
    output_block_loop([decoder |-> d, i |-> 0], start, len)

\* ------------------------------------------------------------------------
\* The source callback (LHADecoderCallback), the decoder's environment.
\* callback_data is [src, pos, sticky, log]: src is the compressed stream,
\* whose elements are bytes or the marker FAIL (a request that reaches the
\* marker fails and consumes the stream through it: a transient failure);
\* pos is the number of elements consumed.  A request for more than what is
\* left fails; a sticky source is then at its end for good, another source
\* keeps what is left.  log records <<request size, success>> of every
\* invocation made during the current call of lha_lzss_read.

FAIL == -1

MinOf(a, b) == IF a < b THEN a ELSE b

callback(cb, n) ==
    LET avail  == Len(cb.src) - cb.pos
        window == [i \in 1..MinOf(n, avail) |-> cb.src[cb.pos + i]]
        marks  == {i \in DOMAIN window : window[i] = FAIL}
        first  == CHOOSE i \in marks : \A j \in marks : i <= j
    IN  IF marks # {} \/ avail < n
           THEN [ok    |-> FALSE,
                 bytes |-> << >>,
                 cb    |-> [cb EXCEPT
                              !.pos = IF cb.sticky THEN Len(cb.src)
                                      ELSE IF marks # {} THEN cb.pos + first
                                      ELSE cb.pos,
                              !.log = Append(@, <<n, FALSE>>)]]
           ELSE [ok    |-> TRUE,
                 bytes |-> window,
                 cb    |-> [cb EXCEPT !.pos = cb.pos + n,
                                      !.log = Append(@, <<n, TRUE>>)]]

\* ------------------------------------------------------------------------
\* process_run: a control byte followed by eight commands.
\* The run state r is [decoder, cb, copies, cmds, ret, emitted]; copies is
\* the record kept, for the claims, of every copy command executed during
\* the current call of lha_lzss_read: its parameters, the write cursor
\* before it, the number of bytes emitted before it during the call, the
\* ring buffer bytes of its range before it, and the bytes it emitted.  cmds
\* is the record of every command reached during the call: the bitmap of
\* its run, its bit position, the branch taken, the place of its request in
\* the callback log, whether the request succeeded, the number of bytes it
\* emitted, and the bytes the callback supplied.

CopyRecord(before, after, seqstart, seqlen, sofar) ==
    [start  |-> seqstart,
     len    |-> seqlen,
     pos    |-> before.ringbuf_pos,
     at     |-> sofar + before.outbuf_len,
     window |-> [i \in 0..(seqlen - 1) |->
                    RingAt(before, (seqstart + i) % RING_BUFFER_SIZE)],
     emitted |-> after.outbuf_len - before.outbuf_len,
     out    |-> [i \in 0..(seqlen - 1) |->
                    IF before.outbuf_len + i \in DOMAIN after.outbuf
                       THEN after.outbuf[before.outbuf_len + i] ELSE FAIL]]

CmdRecord(bitmap, bit, literal, c, before, after) ==
    [bitmap  |-> bitmap,
     bit     |-> bit,
     literal |-> literal,
     req     |-> Len(c.cb.log),
     ok      |-> c.ok,
     emitted |-> after.outbuf_len - before.outbuf_len,
     bytes   |-> c.bytes]

\* seqstart = ((cmd[1] & 0xf0) << 4) | cmd[0]
SeqStart(cmd0, cmd1) == BitOr(Shl(BitAnd(cmd1, 240), 4), cmd0)

\* the length with an offset one above the threshold: 4..19
SeqLenLong(cmd1) == BitAnd(cmd1, 15) + THRESHOLD + 1

\* seqlen = (cmd[1] & 0x0f) + THRESHOLD
SeqLen(cmd1) == BitAnd(cmd1, 15) + THRESHOLD

\* the test of the bit above the one of the command
IsLiteralNextBit(bitmap, bit) == BitAnd(bitmap, Shl(1, bit + 1)) # 0

\* the test with the opposite outcome: a clear bit is "output byte"
IsLiteralInverted(bitmap, bit) == BitAnd(bitmap, Shl(1, bit)) = 0

\* (bitmap & (1 << bit)) != 0: the command is "output byte"
IsLiteral(bitmap, bit) == BitAnd(bitmap, Shl(1, bit)) # 0

\* the for loop over the bits of the bitmap, from bit on
RECURSIVE RunCommands(_, _, _)
RunCommands(r, bitmap, bit) ==
    IF ~(bit < 8) THEN [r EXCEPT !.ret = 1]
    ELSE IF IsLiteral(bitmap, bit)
    THEN LET c == callback(r.cb, 1)
         IN  IF ~c.ok
             THEN [r EXCEPT !.cb = c.cb, !.ret = 0,
                            !.cmds = Append(@,
                                CmdRecord(bitmap, bit, TRUE, c,
                                          r.decoder, r.decoder))]
             ELSE LET after == output_byte(r.decoder, c.bytes[1])
                  IN  RunCommands(
                          [r EXCEPT !.cb = c.cb,
                                    !.decoder = after,
                                    !.cmds = Append(@,
                                        CmdRecord(bitmap, bit, TRUE, c,
                                                  r.decoder, after))],
                          bitmap, bit + 1)
    ELSE LET c == callback(r.cb, 2)
         IN  IF ~c.ok
             THEN [r EXCEPT !.cb = c.cb, !.ret = 0,
                            !.cmds = Append(@,
                                CmdRecord(bitmap, bit, FALSE, c,
                                          r.decoder, r.decoder))]
             ELSE LET seqstart == SeqStart(c.bytes[1], c.bytes[2])
                      seqlen   == SeqLen(c.bytes[2])
                      after    == output_block(r.decoder, seqstart, seqlen)
                  IN  RunCommands(
                          [r EXCEPT !.cb = c.cb,
                                    !.decoder = after,
                                    !.copies = Append(@,
                                        CopyRecord(r.decoder, after,
                                                   seqstart, seqlen,
                                                   Len(r.emitted))),
                                    !.cmds = Append(@,
                                        CmdRecord(bitmap, bit, FALSE, c,
                                                  r.decoder, after))],
                          bitmap, bit + 1)

\* process_run without the reset of outbuf_len
ProcessRunNoReset(r) ==
    LET c == callback(r.cb, 1)
    IN  IF ~c.ok THEN [r EXCEPT !.cb = c.cb, !.ret = 0]
        ELSE RunCommands([r EXCEPT !.cb = c.cb], c.bytes[1], 0)

\* process_run asking for the bitmap a second time when the first request
\* fails
ProcessRunRetry(r) ==
    LET r0 == [r EXCEPT !.decoder.outbuf_len = 0]
        c  == callback(r0.cb, 1)
        c2 == callback(c.cb, 1)
    IN  IF c.ok THEN RunCommands([r0 EXCEPT !.cb = c.cb], c.bytes[1], 0)
        ELSE IF ~c2.ok THEN [r0 EXCEPT !.cb = c2.cb, !.ret = 0]
        ELSE RunCommands([r0 EXCEPT !.cb = c2.cb], c2.bytes[1], 0)

process_run(r) ==
    LET r0 == [r EXCEPT !.decoder.outbuf_len = 0]
        c  == callback(r0.cb, 1)
    IN  IF ~c.ok THEN [r0 EXCEPT !.cb = c.cb, !.ret = 0]
        ELSE RunCommands([r0 EXCEPT !.cb = c.cb], c.bytes[1], 0)

\* ------------------------------------------------------------------------
\* lha_lzss_read.  The call state s is [decoder, cb, copies, cmds, ret, buf,
\* buf_len, filled, runs, drains, emitted]: buf is the part of the
\* destination written so far; emitted the bytes the runs of this call left
\* in outbuf, in order; runs has one record for each process_run of this
\* call: what it returned, the outbuf_len it left, the destination fill
\* count at the time, the part of the callback log that is its own
\* (log[from + 1 .. to]), and whether it left the ring buffer and the write
\* cursor as they were; drains has one record for each memcpy of the call:
\* outbuf_pos and outbuf_len before it and the number of bytes copied.

\* an out-of-bounds read of outbuf yields an indeterminate value
OutbufAt(d, i) == IF i \in DOMAIN d.outbuf THEN d.outbuf[i] ELSE FAIL

RunOutput(d) == [i \in 1..d.outbuf_len |-> OutbufAt(d, i - 1)]

RunRecord(s, r) ==
    [ret    |-> r.ret,
     len    |-> r.decoder.outbuf_len,
     filled |-> s.filled,
     from   |-> Len(s.cb.log),
     to     |-> Len(r.cb.log),
     ring_same   |-> r.decoder.ringbuf = s.decoder.ringbuf,
     cursor_same |-> r.decoder.ringbuf_pos = s.decoder.ringbuf_pos]

\* the refill step without the reset of outbuf_pos
RefillNoPosReset(s) ==
    IF s.decoder.outbuf_pos >= s.decoder.outbuf_len
       THEN LET r == process_run(s)
            IN  [r EXCEPT !.runs = Append(@, RunRecord(s, r)),
                          !.emitted = @ \o RunOutput(r.decoder)]
       ELSE s

\* a refill that processes a second run when the first has emitted nothing
RefillRetry(s) ==
    IF s.decoder.outbuf_pos >= s.decoder.outbuf_len
       THEN LET r  == process_run(s)
                r1 == [r EXCEPT !.decoder.outbuf_pos = 0,
                                !.runs = Append(@, RunRecord(s, r)),
                                !.emitted = @ \o RunOutput(r.decoder)]
                q  == process_run(r1)
            IN  IF r.decoder.outbuf_len # 0 THEN r1
                ELSE [q EXCEPT !.decoder.outbuf_pos = 0,
                               !.runs = Append(@, RunRecord(r1, q)),
                               !.emitted = @ \o RunOutput(q.decoder)]
       ELSE s

\* a lazy refill: only when the destination still has room
RefillIfRoom(s) ==
    IF s.decoder.outbuf_pos >= s.decoder.outbuf_len /\ s.filled < s.buf_len
       THEN LET r == process_run(s)
            IN  [r EXCEPT !.decoder.outbuf_pos = 0,
                          !.runs = Append(@, RunRecord(s, r)),
                          !.emitted = @ \o RunOutput(r.decoder)]
       ELSE s

\* lines 172-175: if outbuf is now empty, process another run to re-fill it
Refill(s) ==
    IF s.decoder.outbuf_pos >= s.decoder.outbuf_len
       THEN LET r == process_run(s)
            IN  [r EXCEPT !.decoder.outbuf_pos = 0,
                          !.runs = Append(@, RunRecord(s, r)),
                          !.emitted = @ \o RunOutput(r.decoder)]
       ELSE s

\* the drain step without the bound of the destination's remaining capacity
DrainAll(s) ==
    LET d     == s.decoder
        bytes == USub(d.outbuf_len, d.outbuf_pos)
    IN  [s EXCEPT !.buf = @ \o [i \in 1..bytes |->
                                   OutbufAt(d, d.outbuf_pos + i - 1)],
                  !.decoder.outbuf_pos = @ + bytes,
                  !.filled = @ + bytes,
                  !.drains = Append(@, [pos   |-> d.outbuf_pos,
                                        len   |-> d.outbuf_len,
                                        bytes |-> bytes])]

\* the drain step taking what is left of the whole array, not of the run
DrainWholeBuffer(s) ==
    LET d     == s.decoder
        avail == USub(OUTPUT_BUFFER_SIZE, d.outbuf_pos)
        bytes == IF s.buf_len - s.filled < avail
                    THEN s.buf_len - s.filled ELSE avail
    IN  [s EXCEPT !.buf = @ \o [i \in 1..bytes |->
                                   OutbufAt(d, d.outbuf_pos + i - 1)],
                  !.decoder.outbuf_pos = @ + bytes,
                  !.filled = @ + bytes,
                  !.drains = Append(@, [pos   |-> d.outbuf_pos,
                                        len   |-> d.outbuf_len,
                                        bytes |-> bytes])]

\* lines 158-167: empty out some of the output buffer
Drain(s) ==
    LET d     == s.decoder
        avail == USub(d.outbuf_len, d.outbuf_pos)
        bytes == IF s.buf_len - s.filled < avail
                    THEN s.buf_len - s.filled ELSE avail
    IN  [s EXCEPT !.buf = @ \o [i \in 1..bytes |->
                                   OutbufAt(d, d.outbuf_pos + i - 1)],
                  !.decoder.outbuf_pos = @ + bytes,
                  !.filled = @ + bytes,
                  !.drains = Append(@, [pos   |-> d.outbuf_pos,
                                        len   |-> d.outbuf_len,
                                        bytes |-> bytes])]

\* the loop leaving as soon as a run has failed, whatever the run left in
\* outbuf
RECURSIVE ReadLoopBreakOnFail(_)
ReadLoopBreakOnFail(s) ==
    IF ~(s.filled < s.buf_len) THEN s
    ELSE LET t == Refill(Drain(s))
         IN  IF t.decoder.outbuf_len = 0 \/ t.ret = 0 THEN t
             ELSE ReadLoopBreakOnFail(t)

\* the loop with its test at the end of the body: do ... while
RECURSIVE ReadLoopDoWhile(_)
ReadLoopDoWhile(s) ==
    LET t == Refill(Drain(s))
    IN  IF t.decoder.outbuf_len = 0 \/ ~(t.filled < t.buf_len) THEN t
        ELSE ReadLoopDoWhile(t)

\* the while loop of lha_lzss_read
RECURSIVE ReadLoop(_)
ReadLoop(s) ==
    IF ~(s.filled < s.buf_len) THEN s
    ELSE LET t == Refill(Drain(s))
         IN  IF t.decoder.outbuf_len = 0 THEN t ELSE ReadLoop(t)

lha_lzss_read(d, cbdata, len) ==
    ReadLoop([decoder |-> d,
              cb      |-> [cbdata EXCEPT !.log = << >>],
              copies  |-> << >>,
              cmds    |-> << >>,
              ret     |-> 1,
              buf     |-> << >>,
              buf_len |-> len,
              filled  |-> 0,
              runs    |-> << >>,
              drains  |-> << >>,
              emitted |-> << >>])

\* ------------------------------------------------------------------------
\* Bounds of the model and the compressed streams it decodes

\* the longest stream made of arbitrary elements
MaxShort == 4

\* the number of runs of a stream made of whole runs
MaxRuns == 2

\* the elements of the arbitrary streams.  As bitmaps they mix literals and
\* copies (65: literal, five copies, literal, copy; 238: copy, three
\* literals, copy, three literals; 240: four copies, four literals); as a
\* command <<238, 240>> is the copy of length 3 from 4078, the initial write
\* cursor; 65 is the literal 'A'
Alphabet == {65, 238, 240}

RECURSIVE SeqsUpTo(_, _)
SeqsUpTo(S, n) ==
    IF n = 0 THEN {<< >>}
    ELSE LET shorter == SeqsUpTo(S, n - 1)
         IN  shorter \cup {Append(q, x) : q \in {t \in shorter : Len(t) = n - 1},
                                         x \in S}

\* whole runs: eight literals, "ABCDEFGH"; and a run of bitmap 85 (literal,
\* copy, literal, copy, ...): 'A', copy 3 from 4078 (the 'A': distance 1),
\* 'b', copy 4 from 4081 (distance 2), 'c', copy 5 from 4078 (distance 10,
\* no overlap), 'd', copy 18 from 0 (filler)
WholeRuns ==
    { <<255, 65, 66, 67, 68, 69, 70, 71, 72>>,
      <<85, 65, 238, 240, 98, 241, 241, 99, 238, 242, 100, 0, 15>> }

RECURSIVE RunSeqs(_)
RunSeqs(n) ==
    IF n = 0 THEN {<< >>}
    ELSE LET shorter == RunSeqs(n - 1)
         IN  shorter \cup {q \o w : q \in shorter, w \in WholeRuns}

Prefixes(q) == {SubSeq(q, 1, n) : n \in 0..Len(q)}

\* streams of whole runs, cut anywhere in the last run
RunStreams ==
    {q \o p : q \in RunSeqs(MaxRuns - 1),
              p \in UNION {Prefixes(w) : w \in WholeRuns}}

\* the sizes lha_lzss_read is called with
ReadSizes == {0, 1, 3, 300}

Sources ==
    {[src |-> q, pos |-> 0, sticky |-> TRUE, log |-> << >>] :
        q \in SeqsUpTo(Alphabet, MaxShort) \cup RunStreams}
    \cup
    {[src |-> q, pos |-> 0, sticky |-> FALSE, log |-> << >>] :
        q \in SeqsUpTo({65, 240, FAIL}, MaxShort)}

\* ------------------------------------------------------------------------
\* The state machine

VARIABLES
    decoder,     \* the LHALZSSDecoder
    cb,          \* the callback's data: the source stream and its position
    last,        \* the last operation and its results; after_short and
                 \* after_zero tell what the reads before it had returned
    delivered,   \* the bytes returned by the reads since the initialization
    produced,    \* the bytes emitted by the runs since the initialization
    base,        \* the source position at the initialization
    short,       \* a read with buf_len > 0 has returned less than buf_len
    split,       \* a read has stopped in the middle of the output of a run
    reinit,      \* the decoder has been initialized again
    literals     \* the bytes the callback has supplied to the "output byte"
                 \* commands since the initialization

vars == <<decoder, cb, last, delivered, produced, base, short, split, reinit,
          literals>>

\* the record of a call of lha_lzss_init, which returns 1
NoRead == [op |-> "init", buf_len |-> 0, ret |-> 1, buf |-> << >>,
           log |-> << >>, copies |-> << >>, runs |-> << >>, emitted |-> << >>,
           cmds |-> << >>, drains |-> << >>,
           after_short |-> FALSE, after_zero |-> FALSE]

Init ==
    /\ decoder = Forget(lha_lzss_init(Allocated))
    /\ cb \in Sources
    /\ last = NoRead
    /\ delivered = << >>
    /\ produced = << >>
    /\ base = 0
    /\ short = FALSE
    /\ split = FALSE
    /\ reinit = FALSE
    /\ literals = {}

\* the decoder type's init operation, on a decoder in any condition
InitCall ==
    /\ ~reinit
    /\ last.op = "read"
    /\ decoder' = Forget(lha_lzss_init(decoder))
    /\ last' = NoRead
    /\ delivered' = << >>
    /\ produced' = << >>
    /\ base' = cb.pos
    /\ short' = FALSE
    /\ split' = FALSE
    /\ reinit' = TRUE
    /\ literals' = {}
    /\ cb' = [cb EXCEPT !.log = << >>]

\* the return of a call of lha_lzss_read that ended in the call state s
ReadReturn(s, buf_len) ==
    /\ decoder' = Forget(s.decoder)
    /\ cb' = s.cb
    /\ last' = [op |-> "read", buf_len |-> buf_len, ret |-> s.filled,
                buf |-> s.buf, log |-> s.cb.log, copies |-> s.copies,
                runs |-> s.runs, emitted |-> s.emitted,
                cmds |-> s.cmds, drains |-> s.drains,
                after_short |-> short,
                after_zero |-> (last.op = "read" /\ last.buf_len > 0
                                /\ last.ret = 0)]
    /\ delivered' = delivered \o s.buf
    /\ produced' = produced \o s.emitted
    /\ short' = (short \/ s.filled < buf_len)
    /\ split' = (split \/ (0 < s.decoder.outbuf_pos /\
                            s.decoder.outbuf_pos < s.decoder.outbuf_len))
    /\ literals' = literals \cup
           {s.cmds[k].bytes[1] :
               k \in {j \in DOMAIN s.cmds :
                         s.cmds[j].literal /\ s.cmds[j].ok}}

\* the decoder type's read operation, with a destination of buf_len bytes
ReadCall(buf_len) ==
    /\ ReadReturn(lha_lzss_read(decoder, cb, buf_len), buf_len)
    /\ UNCHANGED <<base, reinit>>

Next ==
    \/ InitCall
    \/ \E buf_len \in ReadSizes : ReadCall(buf_len)

Spec == Init /\ [][Next]_vars

\* ------------------------------------------------------------------------
\* A second specification, for the runs of maximal output and for the copy
\* commands of every start and length: the same operations, on streams of
\* copy commands of length 18 and on streams of one copy command.

\* a run of eight literals, "ABCDEFGH"
LiteralRun == <<255, 65, 66, 67, 68, 69, 70, 71, 72>>

\* a run of bitmap 0x00 whose eight copies have length 18: from 4090 (ahead
\* of the write cursor), from 0, from 4095 (the range wraps) and from 4078
\* (the initial write cursor)
MaximalRun ==
    <<0, 250, 255, 0, 15, 255, 255, 238, 255, 0, 15, 255, 255, 238, 255,
      0, 15>>

RECURSIVE Repeat(_, _)
Repeat(q, n) == IF n = 0 THEN << >> ELSE q \o Repeat(q, n - 1)

\* a maximal run, cut anywhere, after runs of literals
LongStreams ==
    {Repeat(LiteralRun, n) \o p : n \in 0..(MaxRuns - 1),
                                  p \in Prefixes(MaximalRun)}

Bytes == 0..255

\* one copy command: every first byte with the second byte 0xFF, and every
\* second byte with the first byte 0xFF
CommandStreams ==
    {<<0, c0, 255>> : c0 \in Bytes} \cup {<<0, 255, c1>> : c1 \in Bytes}

MaxReadSizes == {0, 7, 300}

InitMax ==
    /\ decoder = Forget(lha_lzss_init(Allocated))
    /\ cb \in {[src |-> q, pos |-> 0, sticky |-> TRUE, log |-> << >>] :
                  q \in LongStreams \cup CommandStreams}
    /\ last = NoRead
    /\ delivered = << >>
    /\ produced = << >>
    /\ base = 0
    /\ short = FALSE
    /\ split = FALSE
    /\ reinit = FALSE
    /\ literals = {}

NextMax ==
    \/ InitCall
    \/ \E buf_len \in MaxReadSizes : ReadCall(buf_len)

SpecMax == InitMax /\ [][NextMax]_vars

\* ------------------------------------------------------------------------
\* A third specification, for the ring buffer once it has been written all
\* over: a stream long enough to emit more than RING_BUFFER_SIZE bytes, a
\* run of literals followed by maximal runs, decoded by large reads; and
\* the streams of whole runs of the first specification.

\* the number of maximal runs of the long stream: 8 + 29 * 144 > 4096
LongRuns == 29

LongReadSizes == {0, 100, 300}

InitLong ==
    /\ decoder = Forget(lha_lzss_init(Allocated))
    /\ cb \in {[src |-> q, pos |-> 0, sticky |-> TRUE, log |-> << >>] :
                  q \in {LiteralRun \o Repeat(MaximalRun, LongRuns)}
                            \cup RunStreams}
    /\ last = NoRead
    /\ delivered = << >>
    /\ produced = << >>
    /\ base = 0
    /\ short = FALSE
    /\ split = FALSE
    /\ reinit = FALSE
    /\ literals = {}

NextLong ==
    \/ InitCall
    \/ \E buf_len \in LongReadSizes : ReadCall(buf_len)

SpecLong == InitLong /\ [][NextLong]_vars

\* ------------------------------------------------------------------------
\* Definitions the claims are stated with

\* the bytes of outbuf not yet returned: those at outbuf_pos and above,
\* below outbuf_len
Pending(d) ==
    [i \in 1..(d.outbuf_len - d.outbuf_pos) |->
        OutbufAt(d, d.outbuf_pos + i - 1)]

\* the stream the decoder has been given since its initialization
Rem == SubSeq(cb.src, base + 1, Len(cb.src))

IsPrefix(a, b) == Len(a) <= Len(b) /\ a = SubSeq(b, 1, Len(a))

Failed(log) == \E i \in DOMAIN log : ~log[i][2]

\* The one-shot decode of a stream: the bytes of the runs processed one after
\* the other on a freshly initialized decoder, with no reader in between,
\* until the source, which fails for good, lets a run emit nothing.
RECURSIVE DecodeRuns(_)
DecodeRuns(r) ==
    LET t == process_run(r)
    IN  IF t.decoder.outbuf_len = 0 THEN << >>
        ELSE RunOutput(t.decoder) \o DecodeRuns(t)

OneShot(q) ==
    DecodeRuns([decoder |-> lha_lzss_init(Allocated),
                cb      |-> [src |-> q, pos |-> 0, sticky |-> TRUE,
                             log |-> << >>],
                copies  |-> << >>,
                cmds    |-> << >>,
                ret     |-> 1,
                emitted |-> << >>])

ReadReturned == last.op = "read"

\* a read asked for at least one byte and returned none
ReturnedZero == ReadReturned /\ last.buf_len > 0 /\ last.ret = 0

\* ------------------------------------------------------------------------
\* C1.  Chunking independence, no loss: at every moment the bytes emitted by
\* the runs are the bytes returned by the reads followed by the bytes still
\* in outbuf, in emission order (none skipped, duplicated or reordered),
\* whatever the request sizes; and with a source that fails for good, the
\* bytes returned are a prefix of the one-shot decode of the stream, and the
\* whole of it once a read of positive size has returned 0.
C1_ChunkingIndependence ==
    /\ produced = delivered \o Pending(decoder)
    /\ ReturnedZero => delivered = produced
    /\ cb.sticky => IsPrefix(produced, OneShot(Rem))
    /\ (cb.sticky /\ ReturnedZero) => delivered = OneShot(Rem)

\* two runs decoded by several reads, one of which stopped inside a run, up
\* to the read that returns 0
C1_Witness ==
    /\ cb.sticky /\ ~reinit /\ split
    /\ ReturnedZero
    /\ Len(delivered) > 16
    /\ delivered = OneShot(cb.src)

\* ------------------------------------------------------------------------
\* C2.  read(N) never returns more than N, writes exactly the bytes it
\* returns, and returns fewer than N only if the callback failed during the
\* call: when every invocation of the call succeeds it returns exactly N.
C2_ReturnBound ==
    ReadReturned =>
        /\ last.ret <= last.buf_len
        /\ Len(last.buf) = last.ret
        /\ (last.ret < last.buf_len => Failed(last.log))
        /\ (~Failed(last.log) => last.ret = last.buf_len)

\* a read of 3 bytes that needed the callback, which never failed
C2_Witness ==
    /\ ReadReturned
    /\ last.buf_len = 3 /\ last.ret = 3
    /\ Len(last.log) >= 2 /\ ~Failed(last.log)

\* ------------------------------------------------------------------------
\* C3.  Partial-run delivery.

RECURSIVE SumLen(_, _)
SumLen(runs, i) ==
    IF i > Len(runs) THEN 0 ELSE runs[i].len + SumLen(runs, i + 1)

\* the number of bytes emitted since the initialization up to the end of
\* run i of the last read
ProducedThrough(i) == Len(produced) - SumLen(last.runs, i + 1)

\* run i of the last read failed after its bitmap and at least one command
FailedMidRun(i) == last.runs[i].ret = 0 /\ last.runs[i].len >= 1

\* the stream is a bitmap with bit 0 set and one literal, and then fails
OneLiteralStream ==
    /\ Len(Rem) = 2
    /\ Rem[1] # FAIL /\ Rem[1] % 2 = 1
    /\ Rem[2] # FAIL

\* C3 as stated: the bytes of a run that failed in its middle are returned
\* by the read in which it failed as soon as N is at least their number.
C3_AsStated ==
    ReadReturned =>
        \A i \in DOMAIN last.runs :
            (FailedMidRun(i) /\ last.buf_len >= last.runs[i].len)
                => Len(delivered) >= ProducedThrough(i)

\* C3 as amended: the bytes emitted by the completed commands of a run that
\* failed in its middle are all returned, in order, before a read of
\* positive size returns 0; they are returned by the very read in which the
\* run failed when the room left in the destination at the failure
\* (N minus the bytes already filled) is at least their number; and when
\* the source supplies a bitmap with bit 0 set and one literal and then
\* fails, the read with N >= 1 that is served the bitmap returns exactly
\* that literal and the following ones, whose first request fails, return 0.
C3_PartialRunDelivery ==
    /\ ReturnedZero => delivered = produced
    /\ IsPrefix(delivered, produced)
    /\ ReadReturned =>
          \A i \in DOMAIN last.runs :
              (FailedMidRun(i) /\
               last.buf_len - last.runs[i].filled >= last.runs[i].len)
                  => Len(delivered) >= ProducedThrough(i)
    /\ (OneLiteralStream /\ ReadReturned /\ last.buf_len >= 1)
          => /\ delivered = <<Rem[2]>>
             /\ last.ret = (IF last.log[1][2] THEN 1 ELSE 0)

\* a run that failed in its middle, when some bytes were already in the
\* destination, and whose bytes the same read returned
C3_Witness ==
    /\ ReadReturned
    /\ \E i \in DOMAIN last.runs :
          /\ FailedMidRun(i)
          /\ last.runs[i].len >= 2
          /\ last.runs[i].filled >= 1
          /\ last.buf_len - last.runs[i].filled >= last.runs[i].len
    /\ delivered = produced

\* ------------------------------------------------------------------------
\* C4.  Exhaustion is sticky: with a source that keeps failing once it has
\* failed, after a read with N > 0 has returned fewer than N bytes, every
\* later read returns 0, writes nothing to the destination and leaves the
\* ring buffer and the write cursor as they are.
C4_StickyExhaustion ==
    [][(cb.sticky /\ short /\ last'.op = "read")
          => /\ last'.ret = 0
             /\ last'.buf = << >>
             /\ decoder'.ringbuf = decoder.ringbuf
             /\ decoder'.ringbuf_pos = decoder.ringbuf_pos]_vars

\* a read of positive size made after a short read, on a decoder that has
\* decoded something
C4_Witness ==
    /\ cb.sticky /\ short
    /\ ReadReturned /\ last.after_short /\ last.buf_len > 0 /\ last.ret = 0
    /\ decoder.ringbuf # << >>
    /\ Len(delivered) >= 4

\* ------------------------------------------------------------------------
\* C5.  A run whose bitmap request fails (its only callback invocation)
\* emits no byte, outbuf_len is 0 after it, and it leaves the ring buffer
\* and the write cursor unchanged; and on a freshly initialized decoder, a
\* read whose first bitmap request fails returns 0 and writes nothing.
BitmapFailed(u) == u.to = u.from + 1 /\ ~last.log[u.to][2]

C5_BitmapFailure ==
    ReadReturned =>
        /\ \A i \in DOMAIN last.runs :
              BitmapFailed(last.runs[i])
                  => /\ last.runs[i].ret = 0
                     /\ last.runs[i].len = 0
                     /\ last.runs[i].ring_same
                     /\ last.runs[i].cursor_same
        /\ (/\ produced = << >>
            /\ last.runs # << >>
            /\ BitmapFailed(last.runs[1]))
              => /\ last.ret = 0
                 /\ last.buf = << >>
                 /\ decoder = Forget(lha_lzss_init(Allocated))

\* a bitmap request that fails after the run before it has been drained,
\* in a read that had bytes to return
C5_Witness ==
    /\ ReadReturned
    /\ \E i \in DOMAIN last.runs :
          BitmapFailed(last.runs[i]) /\ last.runs[i].filled >= 3
    /\ decoder.ringbuf # << >>

\* ------------------------------------------------------------------------
\* C6.  Literal-only decoding: when every run of the stream has the bitmap
\* 0xFF, followed by its literal bytes, the bytes returned are the literal
\* bytes in input order (a prefix of them at any time, all of them once a
\* read of positive size has returned 0), and no read executes a copy;
\* [0xFF, 0x41..0x48] decodes to "ABCDEFGH".
LiteralOnly(q) ==
    \A i \in DOMAIN q : q[i] # FAIL /\ (i % 9 = 1 => q[i] = 255)

\* the elements of q that are not at a bitmap's place
Literals(q) ==
    [k \in 1..(Len(q) - ((Len(q) + 8) \div 9)) |-> q[k + ((k - 1) \div 8) + 1]]

C6_LiteralOnly ==
    /\ LiteralOnly(Rem)
          => /\ IsPrefix(delivered, Literals(Rem))
             /\ last.copies = << >>
             /\ ReturnedZero => delivered = Literals(Rem)
    /\ (Rem = <<255, 65, 66, 67, 68, 69, 70, 71, 72>> /\ ReturnedZero)
          => delivered = <<65, 66, 67, 68, 69, 70, 71, 72>>

\* two literal runs, returned by several reads of which one stopped inside
\* a run
C6_Witness ==
    /\ LiteralOnly(Rem) /\ Len(Rem) = 18
    /\ split /\ ReturnedZero
    /\ Len(delivered) = 16

\* ------------------------------------------------------------------------
\* C7.  Copy semantics, self-overlap included: a copy (start, length) emits
\* exactly length bytes; byte i is the ring buffer's content at
\* (start + i) mod 4096 at the moment it is emitted: the byte the same copy
\* wrote there if one of its first i bytes went to that index, the content
\* before the copy otherwise.  So with start = (write cursor - d) mod 4096
\* and 1 <= d < length the output is periodic of period d, and it repeats
\* the previous d output bytes when at least d have been emitted; on a
\* fresh decoder, literal 'A' then copy (4078, 3) gives "A" and "AAA".
Distance(c) == (c.pos - c.start) % RING_BUFFER_SIZE

\* the number of bytes emitted since the initialization before copy c of
\* the last read
EmittedBefore(c) == Len(produced) - Len(last.emitted) + c.at

CopyAsClaimed(c) ==
    /\ c.emitted = c.len
    /\ \A i \in 0..(c.len - 1) :
          LET hits == {j \in 0..(i - 1) :
                          (c.pos + j) % RING_BUFFER_SIZE
                              = (c.start + i) % RING_BUFFER_SIZE}
          IN  c.out[i] = IF hits = {} THEN c.window[i]
                         ELSE c.out[CHOOSE j \in hits : TRUE]
    /\ (1 <= Distance(c) /\ Distance(c) < c.len)
          => \A i \in 0..(c.len - 1) :
                /\ c.out[i] = c.window[i % Distance(c)]
                /\ Distance(c) <= EmittedBefore(c)
                      => c.out[i] = produced[EmittedBefore(c) - Distance(c)
                                             + (i % Distance(c)) + 1]

C7_CopySemantics ==
    /\ \A k \in DOMAIN last.copies : CopyAsClaimed(last.copies[k])
    /\ (/\ Len(Rem) >= 4
        /\ \A i \in 1..4 : Rem[i] # FAIL
        /\ Rem[1] % 2 = 1 /\ (Rem[1] \div 2) % 2 = 0
        /\ Rem[2] = 65 /\ Rem[3] = 238 /\ Rem[4] = 240
        /\ produced # << >>)
          => /\ Len(produced) >= 4
             /\ SubSeq(produced, 1, 4) = <<65, 65, 65, 65>>

\* a copy of length 4 at distance 2 that repeats two different bytes
C7_Witness ==
    \E k \in DOMAIN last.copies :
        LET c == last.copies[k]
        IN  /\ Distance(c) = 2 /\ c.len = 4
            /\ c.out[0] # c.out[1]
            /\ c.out[2] = c.out[0] /\ c.out[3] = c.out[1]

\* ------------------------------------------------------------------------
\* C8.  No internal retry.

\* the number of failed callback invocations of the last read
Failures == Cardinality({k \in DOMAIN last.log : ~last.log[k][2]})

\* C8 as stated: within one read, once the callback has failed, the read
\* does not invoke it again.
C8_AsStated ==
    ReadReturned =>
        \A k \in DOMAIN last.log : ~last.log[k][2] => k = Len(last.log)

\* C8 as amended: within one read, a failed invocation ends the run in
\* progress at once (the run makes no further invocation and process_run
\* returns 0); the read invokes the callback again only when the failed run
\* had emitted at least one byte, once all the bytes of that run have been
\* copied to the destination, and then by the 1-byte bitmap request of a new
\* run; with a source that keeps failing there are at most two failed
\* invocations in a read.
C8_NoRetryInRun ==
    ReadReturned =>
        /\ \A i \in DOMAIN last.runs :
              LET u == last.runs[i]
              IN  /\ u.from = (IF i = 1 THEN 0 ELSE last.runs[i - 1].to)
                  /\ u.to > u.from
                  /\ \A k \in (u.from + 1)..u.to :
                        ~last.log[k][2] => (k = u.to /\ u.ret = 0)
                  /\ u.ret = 0 => ~last.log[u.to][2]
        /\ (last.runs # << >>
              => last.runs[Len(last.runs)].to = Len(last.log))
        /\ (last.runs = << >> => last.log = << >>)
        /\ \A i \in DOMAIN last.runs :
              (last.runs[i].ret = 0 /\ i < Len(last.runs))
                  => /\ last.runs[i].len >= 1
                     /\ last.log[last.runs[i].to + 1][1] = 1
                     /\ last.runs[i + 1].filled
                           = last.runs[i].filled + last.runs[i].len
        /\ cb.sticky => Failures <= 2

\* a read in which the callback failed, and was invoked again for the
\* bitmap of a new run after the bytes of the failed run were returned
C8_Witness ==
    /\ ReadReturned /\ cb.sticky
    /\ Failures = 2
    /\ Len(last.runs) >= 2
    /\ last.runs[Len(last.runs) - 1].ret = 0
    /\ last.runs[Len(last.runs) - 1].len >= 2

\* ------------------------------------------------------------------------
\* C9.  Reads after the exhaustion.

\* C9 as stated: after a read has returned 0 because the source was
\* exhausted, a later read returns without invoking the callback.
C9_AsStated ==
    [][(cb.sticky /\ ReturnedZero /\ last'.op = "read")
          => last'.log = << >>]_vars

\* C9 as amended: after a read has returned 0 because the source was
\* exhausted (or has returned fewer bytes than asked), every later read
\* returns 0; a later read with N > 0 invokes the callback exactly once, for
\* the bitmap of a new run, and that request fails; a later read with N = 0
\* does not invoke it.
C9_OneFailedRequest ==
    [][(cb.sticky /\ short /\ last'.op = "read")
          => /\ last'.ret = 0
             /\ last'.log = (IF last'.buf_len > 0 THEN << <<1, FALSE>> >>
                             ELSE << >>)]_vars

\* a read with N > 0 made right after a read that had returned 0: it
\* invoked the callback once
C9_Witness ==
    /\ cb.sticky /\ ReadReturned
    /\ last.after_zero /\ last.buf_len > 0
    /\ last.ret = 0 /\ last.log = << <<1, FALSE>> >>

\* ------------------------------------------------------------------------
\* C10.  Initialization, of a decoder in any condition, succeeds and leaves
\* all 4096 ring buffer bytes equal to 0x20, the write cursor at
\* 4096 - 18 = 4078 and the run output buffer empty (outbuf_len = 0,
\* outbuf_pos = 0); it takes nothing from the source; and a decoder
\* initialized again decodes the rest of the stream as a fresh decoder does.
C10_Initialization ==
    /\ last.op = "init"
          => /\ last.ret = 1
             /\ \A i \in 0..(RING_BUFFER_SIZE - 1) : RingAt(decoder, i) = 32
             /\ decoder.ringbuf_pos = 4078
             /\ decoder.outbuf_len = 0
             /\ decoder.outbuf_pos = 0
             /\ Pending(decoder) = << >>
             /\ cb.pos = base
    /\ (reinit /\ cb.sticky)
          => /\ IsPrefix(delivered \o Pending(decoder), OneShot(Rem))
             /\ ReturnedZero => delivered = OneShot(Rem)

\* a decoder initialized again after it had consumed part of the stream,
\* which has then decoded the rest of it
C10_Witness ==
    /\ reinit /\ cb.sticky /\ base > 0
    /\ ReturnedZero
    /\ Len(delivered) >= 3

\* ------------------------------------------------------------------------
\* C11.  Run output bound: a process_run emits at most 144 bytes; one that
\* completes its 8 commands emits between 8 and 144; a run of bitmap 0x00
\* whose 8 copy commands all have the length field 15 (length 18) emits
\* exactly 144; and every write of output_byte into outbuf is at an index
\* in 0..143.

\* the commands of run i of the last read: those whose request is in the
\* run's part of the callback log
RunCmds(i) ==
    {k \in DOMAIN last.cmds :
        last.runs[i].from < last.cmds[k].req
            /\ last.cmds[k].req <= last.runs[i].to}

\* the input of run i is the bitmap 0x00 and eight copies of length 18
MaximalInput(i) ==
    /\ Cardinality(RunCmds(i)) = 8
    /\ \A k \in RunCmds(i) :
          /\ last.cmds[k].bitmap = 0
          /\ last.cmds[k].ok
          /\ last.cmds[k].bytes[2] % 16 = 15

C11_RunOutputBound ==
    /\ ~decoder.outbuf_oob
    /\ \A i \in DOMAIN decoder.outbuf : 0 <= i /\ i <= 143
    /\ decoder.outbuf_len <= 144
    /\ \A i \in DOMAIN last.runs :
          /\ last.runs[i].len <= 144
          /\ last.runs[i].ret = 1 => 8 <= last.runs[i].len
          /\ MaximalInput(i) => last.runs[i].len = 144

\* a run of eight copies of length 18 has been processed, after a run of
\* literals, and a read has stopped inside its output
C11_Witness ==
    /\ ReadReturned
    /\ \E i \in DOMAIN last.runs :
          MaximalInput(i) /\ last.runs[i].ret = 1 /\ last.runs[i].len = 144
    /\ decoder.outbuf_len = 144
    /\ 0 < decoder.outbuf_pos /\ decoder.outbuf_pos < 144
    /\ Len(produced) > 144

\* ------------------------------------------------------------------------
\* C12.  Command dispatch order: the callback is only invoked with the
\* request sizes 1 and 2; every run starts with the 1-byte bitmap request
\* and, when it is served, executes the commands of the bit positions
\* 0, 1, ..., 7 in increasing order, one request each; command k is a
\* literal (a 1-byte request, 1 byte emitted) iff bit k of the bitmap is
\* set, a copy (a 2-byte request, 3..18 bytes emitted) otherwise; the first
\* failing request ends the run: it is the last request of the run, its
\* command emits nothing, and the run emits what the commands before it
\* emitted.

RECURSIVE SumEmitted(_)
SumEmitted(K) ==
    IF K = {} THEN 0
    ELSE LET k == CHOOSE x \in K : TRUE
         IN  last.cmds[k].emitted + SumEmitted(K \ {k})

\* bit k of the byte b, by division
BitOf(b, k) == (b \div (2 ^ k)) % 2

RunDispatch(i) ==
    LET u == last.runs[i]
        K == RunCmds(i)
    IN  /\ last.log[u.from + 1][1] = 1
        /\ ~last.log[u.from + 1][2] => (K = {} /\ u.to = u.from + 1)
        /\ {last.cmds[k].req : k \in K} = (u.from + 2)..u.to
        /\ Cardinality(K) = u.to - u.from - 1
        /\ Cardinality(K) <= 8
        /\ \A k \in K :
              LET c == last.cmds[k]
              IN  /\ c.bit = c.req - u.from - 2
                  /\ \A j \in K : j < k => last.cmds[j].req < c.req
                  /\ \A j \in K : last.cmds[j].bitmap = c.bitmap
                  /\ c.literal <=> BitOf(c.bitmap, c.bit) = 1
                  /\ last.log[c.req] = <<IF c.literal THEN 1 ELSE 2, c.ok>>
                  /\ (c.ok /\ c.literal) => c.emitted = 1
                  /\ (c.ok /\ ~c.literal)
                        => (3 <= c.emitted /\ c.emitted <= 18)
                  /\ ~c.ok => (c.emitted = 0 /\ c.req = u.to /\ u.ret = 0)
        /\ u.len = SumEmitted(K)
        /\ u.ret = 1 <=> (Cardinality(K) = 8 /\ \A k \in K : last.cmds[k].ok)

C12_DispatchOrder ==
    /\ \A k \in DOMAIN last.log : last.log[k][1] \in {1, 2}
    /\ \A i \in DOMAIN last.runs : RunDispatch(i)
    /\ \A k \in DOMAIN last.cmds : \E i \in DOMAIN last.runs : k \in RunCmds(i)

\* a run of literals and copies that completed its eight commands, and a
\* run that a failing 2-byte request ended after some commands
C12_Witness ==
    /\ ReadReturned
    /\ \E i \in DOMAIN last.runs :
          /\ last.runs[i].ret = 1
          /\ \E j, k \in RunCmds(i) :
                last.cmds[j].literal /\ ~last.cmds[k].literal
    /\ \E i \in DOMAIN last.runs :
          /\ last.runs[i].ret = 0
          /\ last.runs[i].len >= 4
          /\ \E k \in RunCmds(i) :
                ~last.cmds[k].ok /\ ~last.cmds[k].literal

\* ------------------------------------------------------------------------
\* C13.  Ring buffer history: with T the number of bytes emitted since the
\* initialization, the write cursor is (4078 + T) mod 4096; for every j
\* with max(0, T - 4096) <= j < T the ring buffer holds the j-th emitted
\* byte at (4078 + j) mod 4096; every index not written by those bytes
\* holds the filler 0x20 (an index that is not in the domain of the
\* model's ringbuf holds the filler: see RingAt).  The state between two
\* emissions is observed where the code reads it, at every copy command:
\* the write cursor before the copy is (4078 + E) mod 4096 for the E bytes
\* emitted before it, and each byte of the copy's range is the latest byte
\* emitted at that index, or the filler.  A run that emits nothing leaves
\* the ring buffer and the cursor as they are; since the ring buffer is
\* determined by the bytes emitted, nothing else modifies it.

\* the first of the last 4096 bytes emitted
HistoryStart ==
    IF Len(produced) > 4096 THEN Len(produced) - 4096 ELSE 0

\* the ring buffer content at index idx after the first e bytes emitted
HistoryAt(idx, e) ==
    LET k == (idx - 4078) % 4096
    IN  IF k >= e THEN 32
        ELSE produced[k + 4096 * ((e - 1 - k) \div 4096) + 1]

C13_RingHistory ==
    /\ decoder.ringbuf_pos = (4078 + Len(produced)) % 4096
    /\ \A j \in HistoryStart..(Len(produced) - 1) :
          RingAt(decoder, (4078 + j) % 4096) = produced[j + 1]
    /\ \A i \in DOMAIN decoder.ringbuf :
          \/ (i - 4078) % 4096 < Len(produced)
          \/ decoder.ringbuf[i] = 32
    /\ \A i \in DOMAIN decoder.ringbuf : 0 <= i /\ i <= 4095
    /\ \A k \in DOMAIN last.copies :
          LET c == last.copies[k]
          IN  /\ c.pos = (4078 + EmittedBefore(c)) % 4096
              /\ \A i \in 0..(c.len - 1) :
                    c.window[i] = HistoryAt((c.start + i) % 4096,
                                            EmittedBefore(c))
    /\ \A i \in DOMAIN last.runs :
          last.runs[i].len = 0
              => (last.runs[i].ring_same /\ last.runs[i].cursor_same)

\* more than 4096 bytes have been emitted, the first ones are overwritten,
\* and the last read executed a copy whose range held bytes other than the
\* filler
C13_Witness ==
    /\ Len(produced) > 4096 + 18
    /\ decoder.ringbuf_pos < 4078
    /\ RingAt(decoder, 4078) # produced[1]
    /\ \E k \in DOMAIN last.copies :
          /\ EmittedBefore(last.copies[k]) > 4096
          /\ \E i \in 0..(last.copies[k].len - 1) :
                last.copies[k].window[i] # 32

\* ------------------------------------------------------------------------
\* C14.  Run output buffer invariant: whenever init or read has returned,
\* 0 <= outbuf_pos <= outbuf_len <= 144; and every drain copy (memcpy) of a
\* read takes its bytes from indices of outbuf in [outbuf_pos, outbuf_len)
\* only, so that no byte returned is an indeterminate one.
C14_OutbufInvariant ==
    /\ 0 <= decoder.outbuf_pos
    /\ decoder.outbuf_pos <= decoder.outbuf_len
    /\ decoder.outbuf_len <= 144
    /\ \A k \in DOMAIN last.drains :
          LET m == last.drains[k]
          IN  /\ 0 <= m.pos /\ m.pos <= m.len /\ m.len <= 144
              /\ 0 <= m.bytes
              /\ m.pos + m.bytes <= m.len
    /\ \A i \in DOMAIN last.buf : last.buf[i] # FAIL

\* a read that copied the rest of a run, from the middle of outbuf, then
\* part of the next run, and returned with unread bytes left
C14_Witness ==
    /\ ReadReturned
    /\ Len(last.drains) >= 2
    /\ last.drains[1].pos > 0 /\ last.drains[1].bytes > 0
    /\ last.drains[1].pos + last.drains[1].bytes = last.drains[1].len
    /\ last.drains[2].pos = 0 /\ last.drains[2].bytes > 0
    /\ 0 < decoder.outbuf_pos /\ decoder.outbuf_pos < decoder.outbuf_len

\* ------------------------------------------------------------------------
\* C15.  Copy-field decoding and bounds: for every pair of command bytes
\* (c0, c1) in 0..255, start = ((c1 & 0xF0) << 4) | c0 is in 0..4095, with
\* c0 as its bits 0-7 and the high nibble of c1 as its bits 8-11, and
\* length = (c1 & 0x0F) + 3 is in 3..18; every copy executed has the start
\* and the length of its two command bytes; every ring buffer read and
\* write is at an index in 0..4095; and no input is rejected: a served copy
\* command emits its length, and a run returns 0 only after a request of
\* its own has failed.

\* the two fields, by division, for all the 65536 pairs of bytes
AllCommandFields ==
    \A c0 \in Bytes, c1 \in Bytes :
        /\ SeqStart(c0, c1) = c0 + 256 * (c1 \div 16)
        /\ 0 <= SeqStart(c0, c1) /\ SeqStart(c0, c1) <= 4095
        /\ SeqLen(c1) = (c1 % 16) + 3
        /\ 3 <= SeqLen(c1) /\ SeqLen(c1) <= 18

\* the command was a copy and its request was served
IsServedCopy(c) == ~c.literal /\ c.ok

\* the copy commands executed by the last read, in order
ServedCopies == SelectSeq(last.cmds, IsServedCopy)

C15_CopyFields ==
    /\ AllCommandFields
    /\ ~decoder.ringbuf_oob
    /\ 0 <= decoder.ringbuf_pos /\ decoder.ringbuf_pos <= 4095
    /\ \A i \in DOMAIN decoder.ringbuf : 0 <= i /\ i <= 4095
    /\ Len(ServedCopies) = Len(last.copies)
    /\ \A k \in DOMAIN last.copies :
          LET c == last.copies[k]
              m == ServedCopies[k]
          IN  /\ c.start = m.bytes[1] + 256 * (m.bytes[2] \div 16)
              /\ c.len = (m.bytes[2] % 16) + 3
              /\ 0 <= c.start /\ c.start <= 4095
              /\ 3 <= c.len /\ c.len <= 18
              /\ c.emitted = c.len
              /\ m.emitted = c.len
    /\ \A i \in DOMAIN last.runs :
          last.runs[i].ret = 0 => ~last.log[last.runs[i].to][2]
    /\ ReadReturned => (0 <= last.ret /\ last.ret <= last.buf_len)

\* a copy of length 18 from 4095, whose range wraps to index 0, and a copy
\* from an index below the write cursor, have been executed
C15_Witness ==
    /\ \E k \in DOMAIN last.copies :
          last.copies[k].start = 4095 /\ last.copies[k].len = 18
    /\ \E k \in DOMAIN last.copies :
          last.copies[k].start = 0 /\ last.copies[k].emitted = 18
    /\ decoder.ringbuf_pos < 4078

\* ------------------------------------------------------------------------
\* C16.  Eager refill: at the return of every read with N > 0, outbuf holds
\* at least one unread byte (outbuf_pos < outbuf_len) or is in the
\* exhausted shape outbuf_pos = outbuf_len = 0; it is never left fully
\* drained with outbuf_len > 0.  A read whose last copy took the last byte
\* of a run has called process_run after it, before returning, even when
\* the destination was already full.
C16_EagerRefill ==
    (ReadReturned /\ last.buf_len > 0) =>
        /\ \/ decoder.outbuf_pos < decoder.outbuf_len
           \/ (decoder.outbuf_pos = 0 /\ decoder.outbuf_len = 0)
        /\ LET m == last.drains[Len(last.drains)]
           IN  m.pos + m.bytes = m.len
                   => /\ last.runs # << >>
                      /\ last.runs[Len(last.runs)].filled = last.ret

\* a read that returned N bytes, the last of them the last byte of a run,
\* and that processed the next run with the destination full: the bytes of
\* that run are all unread
C16_Witness ==
    /\ ReadReturned
    /\ last.buf_len > 0 /\ last.ret = last.buf_len
    /\ Len(last.runs) >= 1
    /\ last.runs[Len(last.runs)].filled = last.buf_len
    /\ last.runs[Len(last.runs)].len >= 8
    /\ decoder.outbuf_pos = 0
    /\ Len(delivered) >= 8

\* ------------------------------------------------------------------------
\* C17.  Termination: every read returns, whatever the stream and wherever
\* the callback starts failing: the while loop of a read with N >= 1 makes
\* at most N + 1 iterations (one memcpy each) and process_run is invoked
\* at most N + 1 times, because every iteration delivers at least one
\* byte, or refills an empty buffer with at least one byte, or breaks out
\* on a run that emitted nothing: only the first iteration can deliver
\* nothing.  A read with N = 0 makes no iteration.
C17_Termination ==
    ReadReturned =>
          /\ last.buf_len >= 1 => Len(last.runs) <= last.buf_len + 1
          /\ last.buf_len >= 1 => Len(last.drains) <= last.buf_len + 1
          /\ last.buf_len = 0 => (last.runs = << >> /\ last.drains = << >>)
          /\ Len(last.runs) <= Len(last.drains)
          /\ \A k \in DOMAIN last.drains :
                \/ last.drains[k].bytes >= 1
                \/ /\ k = 1
                   /\ last.runs # << >>
                   /\ last.runs[1].filled = 0
                   /\ \/ last.runs[1].len >= 1
                      \/ (Len(last.drains) = 1 /\ decoder.outbuf_len = 0)

\* a read with N = 1 that invoked process_run N + 1 times: once to fill
\* the empty buffer, once after it had delivered the only byte of the run
C17_Witness ==
    /\ ReadReturned
    /\ last.buf_len = 1 /\ last.ret = 1
    /\ Len(last.runs) = 2
    /\ last.drains[1].bytes = 0
    /\ last.runs[1].len = 1

\* ------------------------------------------------------------------------
\* C18.  No fabricated bytes: every byte emitted since the initialization,
\* hence every byte of the ring buffer, of outbuf and of what the reads
\* returned, is the filler 0x20 or a byte the callback supplied to an
\* "output byte" command since the initialization; a stream of copy
\* commands only (every bitmap 0x00), given to a freshly initialized
\* decoder, decodes to 0x20 bytes only.
Genuine(b) == b = 32 \/ b \in literals

\* every element of q at a bitmap's place, when every command is a copy,
\* is 0x00
CopyOnly(q) ==
    \A i \in DOMAIN q : q[i] # FAIL /\ (i % 17 = 1 => q[i] = 0)

C18_NoFabricatedBytes ==
    /\ \A i \in DOMAIN produced : Genuine(produced[i])
    /\ \A i \in DOMAIN delivered : Genuine(delivered[i])
    /\ \A i \in DOMAIN decoder.ringbuf : Genuine(decoder.ringbuf[i])
    /\ \A i \in 0..(decoder.outbuf_len - 1) : Genuine(OutbufAt(decoder, i))
    /\ CopyOnly(Rem)
          => /\ literals = {}
             /\ \A i \in DOMAIN produced : produced[i] = 32
             /\ \A i \in DOMAIN delivered : delivered[i] = 32

\* a run of literals followed by a run of copies, which has emitted both
\* the literals again and the filler
C18_Witness ==
    /\ Len(produced) = 152
    /\ Cardinality(literals) = 8
    /\ \E i \in 9..152 : produced[i] = 65
    /\ \E i \in 9..152 : produced[i] = 32
    /\ \E i \in DOMAIN delivered : i > 8 /\ delivered[i] = 72

\* ------------------------------------------------------------------------
\* C19.  A read with N = 0 returns 0, writes nothing, does not invoke the
\* callback (no request, no run, no memcpy, the source position unchanged)
\* and leaves the whole decoder state (ring buffer, write cursor,
\* outbuf_pos, outbuf_len, outbuf) unchanged, in every reachable state; the
\* bytes returned so far are unchanged too, so that the reads that follow
\* return what they would have returned without it.
C19_ZeroLengthRead ==
    [][(last'.op = "read" /\ last'.buf_len = 0)
          => /\ last'.ret = 0
             /\ last'.buf = << >>
             /\ last'.log = << >>
             /\ last'.runs = << >>
             /\ last'.drains = << >>
             /\ decoder' = decoder
             /\ cb'.pos = cb.pos
             /\ cb'.src = cb.src
             /\ delivered' = delivered
             /\ produced' = produced]_vars

\* a read with N = 0 made between two reads of a run: unread bytes are in
\* outbuf and the source is not at its end
C19_Witness ==
    /\ ReadReturned
    /\ last.buf_len = 0 /\ last.ret = 0
    /\ 0 < decoder.outbuf_pos /\ decoder.outbuf_pos < decoder.outbuf_len
    /\ cb.pos < Len(cb.src)
    /\ delivered # << >>

=============================================================================
